---- MODULE Spec2Model ----
(***************************************************************************)
(* The evaluation job pipeline of modelwhiz-backend: the submission        *)
(* endpoint (app/api/evaluations.py), the Celery task wrapper              *)
(* (app/workers/tasks.py), the evaluation worker                           *)
(* (app/evaluation_engine/main_evaluator.py), model deletion               *)
(* (app/api/models.py) and the storage utilities                           *)
(* (app/utils/file_cleanup.py).                                            *)
(*                                                                         *)
(* Every submission s creates at most one ModelVersion row and one Job     *)
(* row, so rows, uploaded files and task state are indexed by s. The ids   *)
(* the store assigns to the two rows are modelId[s] and jobId[s]; job      *)
(* directories are indexed by their name, which is a job id.               *)
(*                                                                         *)
(* Three specifications share the variables. Spec (FairSpec with a fair    *)
(* worker pool) is the pipeline. FnSpec applies the pure functions         *)
(* generate_insights (app/evaluation_engine/insight_generator.py) and the  *)
(* task type decision to every argument of a sample. LifeSpec runs the     *)
(* storage utilities step by step on an arbitrary artifact tree while      *)
(* worker runs create and remove job directories and time passes.          *)
(***************************************************************************)
EXTENDS Integers, FiniteSets, Sequences, TLC

\* ---------------------------------------------------------------- bounds
MaxJobs == 2
MaxFaults == 2
MaxCrashes == 1

\* ------------------------------------------------------ program constants
MaxRetries == 3

\* evaluations.py 59: validate_file_size(temp_model_path, max_size_mb=100)
MaxSizeMb == 100
BytesPerMb == 1024 * 1024

\* file_cleanup.py 168-171: free space, in MB, below which the alert level
\* is warning and critical
WarningFreeMb == 5120
CriticalFreeMb == 1024

Subs == 1..MaxJobs

\* ids assigned by the store and names of job directories
Ids == 1..MaxJobs

PENDING == "PENDING"
PROCESSING == "PROCESSING"
COMPLETED == "COMPLETED"
FAILED == "FAILED"

JobStatus == {PENDING, PROCESSING, COMPLETED, FAILED}
Terminal == {COMPLETED, FAILED}

\* messages of the exceptions a worker run can catch
ErrZip == "zip"
ErrArtifact == "artifact"
ErrTarget == "target"
ErrStore == "store"
ErrCsv == "dataset"
ErrSoftLimit == "SoftTimeLimitExceeded"
ErrHardLimit == "TimeLimitExceeded"
ErrPlot == "plot"

\* ----------------------------------------------------- request inputs
\* names of uploaded model files: stem and extension as the client sent them
NameSeq == <<[stem |-> "model", ext |-> ".exe"],
             [stem |-> "model", ext |-> ".pkl"],
             [stem |-> "model", ext |-> ".ZIP"]>>
FileNames == {NameSeq[i] : i \in 1..Len(NameSeq)}
NoName == [stem |-> "", ext |-> ""]

\* submissions are interchangeable, so submission s draws its file name
\* from the first s + 1 names
NamesFor(s) == {NameSeq[i] : i \in 1..(IF s + 1 < Len(NameSeq) THEN s + 1 ELSE Len(NameSeq))}

\* sizes in bytes of uploaded model files: at the ceiling and one byte over
SizeSamples == {MaxSizeMb * BytesPerMb, MaxSizeMb * BytesPerMb + 1}
NoFile == -1

\* free space in MB at submission time; DiskError: shutil.disk_usage raised
DiskError == -1
FreeSamples == {DiskError, CriticalFreeMb - 1, CriticalFreeMb,
                WarningFreeMb - 1, WarningFreeMb}

\* evaluations.py 64: the extension allow-list
AllowedExtensions == {".pkl", ".joblib", ".zip"}

\* str.lower() on the extensions that occur
Lower(e) == IF e = ".ZIP" THEN ".zip" ELSE e

\* file_cleanup.py 10-32: size in MB (true division) against the ceiling;
\* a path that does not exist is reported as invalid
validate_file_size(bytes, max_size_mb) ==
    IF bytes = NoFile THEN FALSE ELSE ~(bytes > max_size_mb * BytesPerMb)

\* file_cleanup.py 35-54: lower-cased extension of the path in the list
validate_file_type(name, allowed) == Lower(name.ext) \in allowed

\* file_cleanup.py 151-188: alert level of the usage snapshot
get_storage_usage(free_mb) ==
    IF free_mb = DiskError THEN "error"
    ELSE IF free_mb < CriticalFreeMb THEN "critical"
    ELSE IF free_mb < WarningFreeMb THEN "warning"
    ELSE "normal"

\* storage_monitor.py 36: free space, in MB, below which the monitor
\* reports high_warning
HighWarningFreeMb == 2048

\* storage_monitor.py 24-39 and 64-71: status of StorageMonitor
check_storage_status(free_mb) ==
    IF free_mb = DiskError THEN "error"
    ELSE IF free_mb < CriticalFreeMb THEN "critical"
    ELSE IF free_mb < HighWarningFreeMb THEN "high_warning"
    ELSE IF free_mb < WarningFreeMb THEN "warning"
    ELSE "normal"

\* free space in MB around every threshold of the two functions
LevelSamples ==
    FreeSamples \cup {0, HighWarningFreeMb - 1, HighWarningFreeMb}

\* ------------------------------------------------- generate_insights
\* insight_generator.py. A metrics dictionary maps some of the metric names
\* to a value; values are in hundredths (0.7 is 70) and the samples lie on
\* both sides of every threshold of the rules. A message is identified by
\* its rule.
MetricNames == {"accuracy", "f1_score", "auc", "rmse", "r2_score"}
None == -1000

MetricSamples ==
    [accuracy |-> {None, 59, 60},
     f1_score |-> {None, 69, 70, 79, 80},
     auc      |-> {None, 69, 70, 90, 91},
     rmse     |-> {None, 100, 101},
     r2_score |-> {None, -10, 49, 50, 85, 86}]

\* the dictionary that holds the metrics of r that are not None
\* (main_evaluator.py 233 drops the None values before the call)
AsDict(r) == [k \in {n \in MetricNames : r[n] # None} |-> r[k]]

MetricDicts ==
    {AsDict(r) : r \in [accuracy : MetricSamples.accuracy,
                        f1_score : MetricSamples.f1_score,
                        auc : MetricSamples.auc,
                        rmse : MetricSamples.rmse,
                        r2_score : MetricSamples.r2_score]}

\* dict.get(key): None when the key is absent
Get(metrics, key) == IF key \in DOMAIN metrics THEN metrics[key] ELSE None

MsgLowF1 == "F1 Score is low"
MsgLowAuc == "AUC score is modest"
MsgAucF1 == "High AUC but moderate F1 Score"
MsgLowAccuracy == "Accuracy is low"
MsgLowR2 == "Low R2 Score"
MsgHighR2 == "Strong R2 Score"
MsgHighRmse == "High RMSE"
MsgDefault == "Solid performance metrics"

\* insights.append(msg) when cond
AppendIf(insights, cond, msg) == IF cond THEN Append(insights, msg) ELSE insights

\* generate_insights with the default message appended to every result
generate_insights_AlwaysDefault(metrics) ==
    LET r2 == Get(metrics, "r2_score")
        rmse == Get(metrics, "rmse")
        f1 == Get(metrics, "f1_score")
        auc == Get(metrics, "auc")
        accuracy == Get(metrics, "accuracy")
        g1 == IF r2 # None
              THEN IF r2 < 50 THEN <<MsgLowR2>>
                   ELSE IF r2 > 85 THEN <<MsgHighR2>> ELSE <<>>
              ELSE <<>>
        g2 == AppendIf(g1, rmse # None /\ rmse > 100, MsgHighRmse)
        c1 == AppendIf(<<>>, f1 # None /\ f1 < 70, MsgLowF1)
        c2 == AppendIf(c1, auc # None /\ auc < 70, MsgLowAuc)
        c3 == AppendIf(c2, auc # None /\ auc > 90 /\ f1 # None /\ f1 < 80, MsgAucF1)
        c4 == AppendIf(c3, accuracy # None /\ accuracy < 60, MsgLowAccuracy)
        insights == IF "rmse" \in DOMAIN metrics THEN g2 ELSE c4
    IN  Append(insights, MsgDefault)

\* generate_insights with the two R2 rules tested independently and the
\* low-R2 threshold included
generate_insights_R2Inclusive(metrics) ==
    LET r2 == Get(metrics, "r2_score")
        rmse == Get(metrics, "rmse")
        f1 == Get(metrics, "f1_score")
        auc == Get(metrics, "auc")
        accuracy == Get(metrics, "accuracy")
        g0 == AppendIf(<<>>, r2 # None /\ r2 <= 50, MsgLowR2)
        g1 == AppendIf(g0, r2 # None /\ r2 > 85, MsgHighR2)
        g2 == AppendIf(g1, rmse # None /\ rmse > 100, MsgHighRmse)
        c1 == AppendIf(<<>>, f1 # None /\ f1 < 70, MsgLowF1)
        c2 == AppendIf(c1, auc # None /\ auc < 70, MsgLowAuc)
        c3 == AppendIf(c2, auc # None /\ auc > 90 /\ f1 # None /\ f1 < 80, MsgAucF1)
        c4 == AppendIf(c3, accuracy # None /\ accuracy < 60, MsgLowAccuracy)
        insights == IF "rmse" \in DOMAIN metrics THEN g2 ELSE c4
    IN  IF insights = <<>> THEN <<MsgDefault>> ELSE insights

\* lines 3-47: the regression rules apply when the dictionary has the key
\* rmse (line 11), the classification rules otherwise; each rule that holds
\* appends its message; the default message is appended to an empty list
generate_insights(metrics) ==
    LET r2 == Get(metrics, "r2_score")
        rmse == Get(metrics, "rmse")
        f1 == Get(metrics, "f1_score")
        auc == Get(metrics, "auc")
        accuracy == Get(metrics, "accuracy")
        g1 == IF r2 # None
              THEN IF r2 < 50 THEN <<MsgLowR2>>
                   ELSE IF r2 > 85 THEN <<MsgHighR2>> ELSE <<>>
              ELSE <<>>
        g2 == AppendIf(g1, rmse # None /\ rmse > 100, MsgHighRmse)
        c1 == AppendIf(<<>>, f1 # None /\ f1 < 70, MsgLowF1)
        c2 == AppendIf(c1, auc # None /\ auc < 70, MsgLowAuc)
        c3 == AppendIf(c2, auc # None /\ auc > 90 /\ f1 # None /\ f1 < 80, MsgAucF1)
        c4 == AppendIf(c3, accuracy # None /\ accuracy < 60, MsgLowAccuracy)
        insights == IF "rmse" \in DOMAIN metrics THEN g2 ELSE c4
    IN  IF insights = <<>> THEN <<MsgDefault>> ELSE insights

\* ------------------------------------------------- task type decision
\* main_evaluator.py 165-169. The model's _estimator_type is "classifier",
\* "regressor", another string, or absent (None); the target column has a
\* number of distinct values and a dtype.
EstimatorTypes == {"classifier", "regressor", "clusterer", "None"}
MaxDistinct == 30
UniqueSamples == {2, MaxDistinct - 1, MaxDistinct, MaxDistinct + 1}
Dtypes == {"int64", "object", "float64", "int32", "bool"}

\* the decision with the bound on the distinct values included
is_classification_Inclusive(estimator_type, n_unique, dtype) ==
    IF estimator_type = "classifier" THEN TRUE
    ELSE IF estimator_type = "regressor" THEN FALSE
    ELSE n_unique <= MaxDistinct /\ (dtype = "object" \/ dtype = "int64")

\* is_classification starts as (_estimator_type == 'classifier'); it stays
\* False for a declared regressor; in every other case that is not a
\* classifier the target decides
is_classification(estimator_type, n_unique, dtype) ==
    IF estimator_type = "classifier" THEN TRUE
    ELSE IF estimator_type = "regressor" THEN FALSE
    ELSE n_unique < MaxDistinct /\ (dtype = "object" \/ dtype = "int64")

\* the calls under study
InsightCalls == {[fn |-> "generate_insights", metrics |-> m] : m \in MetricDicts}
TaskTypeCalls ==
    [fn : {"is_classification"}, estimator_type : EstimatorTypes,
     n_unique : UniqueSamples, dtype : Dtypes]
StorageCalls ==
    {[fn |-> f, free_mb |-> m] :
        f \in {"get_storage_usage", "check_storage_status"}, m \in LevelSamples}
NoCall == [fn |-> "none"]
NoRet == [done |-> FALSE]
Returned(value) == [done |-> TRUE, value |-> value]

\* ------------------------------------------- what an upload evaluates to
\* What the worker finds in the uploaded package and dataset: the
\* _estimator_type of the model, the number of distinct values and the
\* dtype of the target column, and whether predict_proba gives an AUC.
\* `read` is FALSE as long as no run has evaluated the upload.
Unread ==
    [read |-> FALSE, estimator_type |-> "None", n_unique |-> 0,
     dtype |-> "object", proba |-> FALSE]

PackageSeq ==
    <<[read |-> TRUE, estimator_type |-> "classifier", n_unique |-> 2,
       dtype |-> "int64", proba |-> TRUE],
      [read |-> TRUE, estimator_type |-> "None", n_unique |-> MaxDistinct - 1,
       dtype |-> "int64", proba |-> FALSE],
      [read |-> TRUE, estimator_type |-> "regressor", n_unique |-> MaxDistinct + 1,
       dtype |-> "float64", proba |-> FALSE]>>

\* main_evaluator.py 171-233: the scores of the evaluation, in hundredths.
\* A classification has accuracy and f1_score, and auc unless it is None
\* (dropped at line 233); a regression has rmse and r2_score.
final_metrics(p) ==
    IF is_classification(p.estimator_type, p.n_unique, p.dtype)
    THEN IF p.proba
         THEN [accuracy |-> 59, f1_score |-> 69, auc |-> 91]
         ELSE [accuracy |-> 59, f1_score |-> 69]
    ELSE [rmse |-> 101, r2_score |-> 49]

\* line 245
task_type(p) ==
    IF is_classification(p.estimator_type, p.n_unique, p.dtype)
    THEN "classification" ELSE "regression"

\* ------------------------------------------------- storage utilities
\* file_cleanup.py works on uploads/eval_jobs/: the root, one directory per
\* id below it, and files in the directories. Time is in days.
Names == {"model.pkl", "upload.tmp"}
endswith_tmp(n) == n = "upload.tmp"

Epoch == 8
MaxNow == 9
MaxEnv == 2
MaxUnlinkFailures == 1

\* age thresholds: the retention of cleanup_old_files (7 days by default)
\* and the two passes of emergency_cleanup (1 day, then 3 days)
DefaultDays == 7
EmergencyDays == 1
EmergencyDays2 == 3
DaysSamples == {EmergencyDays, DefaultDays}

\* modification times of the files found at the start
MtimeSamples == {0, 1, 6}

Trees ==
    {t \in [root : BOOLEAN, dir : [Ids -> BOOLEAN],
            mtime : [Ids \X Names -> MtimeSamples \cup {NoFile}]] :
        \A i \in Ids :
            /\ t.dir[i] => t.root
            /\ ~t.dir[i] => \A n \in Names : t.mtime[<<i, n>>] = NoFile
            /\ t.mtime[<<i, "upload.tmp">>] \in {NoFile, 6}}

EmptyTree ==
    [root |-> FALSE, dir |-> [i \in Ids |-> FALSE],
     mtime |-> [f \in Ids \X Names |-> NoFile]]

\* shutil.rmtree(uploads/eval_jobs/<d>)
rmtree(t, d) ==
    [t EXCEPT !.dir[d] = FALSE,
              !.mtime = [f \in Ids \X Names |-> IF f[1] = d THEN NoFile ELSE @[f]]]

\* os.listdir(uploads/eval_jobs/<d>)
listdir(t, d) == {n \in Names : t.mtime[<<d, n>>] # NoFile}

\* the order in which a listing is gone through
FirstDir(dirs) == CHOOSE d \in dirs : \A e \in dirs : d <= e
FirstName(names) == IF "model.pkl" \in names THEN "model.pkl" ELSE "upload.tmp"

Idle ==
    [kind |-> "idle", pc |-> "idle", days |-> 0, at |-> 0, cutoff |-> 0,
     dirs |-> {}, d |-> 0, names |-> {}, pass |-> 1,
     removed |-> <<0, 0>>, errors |-> <<0, 0>>, alert |-> "none"]

NoHist == [days |-> 0, at |-> 0, errors |-> 0, quiet |-> FALSE, fails |-> 0, env |-> 0]

VARIABLES
    spc,          \* position of start_evaluation for each submission
    alert,        \* alert_level of storage_info (lines 48-49; "none" when
                  \* not read yet or no longer used)
    fname,        \* model_file.filename of the submission
    msize,        \* size in bytes of the uploaded model file
    tracked,      \* temp_files_for_cleanup
    pairOf,       \* (user_id, model_name) of the submission, as an index
    cnt,          \* existing_versions_count read by the submission
    jobRow,       \* evaluation_jobs row of each submission
    modelRow,     \* ml_models row of each submission
    metricRecs,   \* number of metrics rows with model_id = modelId[s]
    modelId,      \* ml_model.id assigned by the store (0: none yet)
    jobId,        \* new_job.id assigned by the store (0: none yet)
    fk,           \* the store enforces foreign keys: "on", "off", or "any"
                  \* while no statement has depended on it yet
    zipFile,      \* uploads/temp/<user>_<uid>_package.zip exists
    csvFile,      \* uploads/temp/<user>_<uid>_<dataset> exists
    tempCopy,     \* uploads/temp/temp_<filename>: size of its content
    loose,        \* which of uploads/temp/<user>_<uid>_<model|preprocessor> exist
    jobDir,       \* uploads/eval_jobs/<id>: "none", "empty" or "full"
    queue,        \* undelivered broker messages of evaluate_model_async
    retries,      \* self.request.retries of the task
    celeryState,  \* state of the task in the result backend
    wpc,          \* position of the worker run of each job
    exc,          \* message of the exception caught by the current run
    entryTerminal,\* the current run was started on a COMPLETED/FAILED job
    pkg,          \* what the upload of the submission evaluates to
    faults,       \* store/broker/disk failures injected so far
    crashes,      \* worker runs ended from outside so far (process lost,
                  \* time limit, revoke)
    arg,          \* arguments of the call of a pure function under study
    ret,          \* what that call returned
    tree,         \* uploads/eval_jobs as the storage utilities see it:
                  \* the root, the job directories, the files and their mtime
    now,          \* datetime.now(), in days
    op,           \* the storage utility that is running, and its locals
    hist          \* what happened around the last completed cleanup_old_files

reqVars == <<alert, fname, msize, tracked, pairOf, cnt>>
idVars == <<modelId, jobId, fk>>
storeVars == <<jobRow, modelRow, metricRecs, idVars>>
stageFiles == <<tempCopy, loose>>
fileVars == <<zipFile, csvFile, jobDir, stageFiles>>
taskVars == <<queue, retries, celeryState>>
runVars == <<wpc, exc, entryTerminal>>

pipeVars == <<spc, reqVars, storeVars, fileVars, taskVars, runVars, pkg, faults,
              crashes>>
fnVars == <<arg, ret>>
lifeVars == <<tree, now, op, hist>>
sideVars == <<fnVars, lifeVars>>

vars == <<pipeVars, sideVars>>

\* --------------------------------------------------------------- rows
NoJob == [exists |-> FALSE, model_id |-> 0, status |-> PENDING,
          results |-> "none", artifacts |-> "none", error |-> "none",
          task_id |-> FALSE, metrics |-> <<>>, insights |-> <<>>]

\* EvaluationJob(user_id, model_name, model_id): status defaults to PENDING
NewJob(model_id) ==
    [exists |-> TRUE, model_id |-> model_id, status |-> PENDING,
     results |-> "none", artifacts |-> "none", error |-> "none",
     task_id |-> FALSE, metrics |-> <<>>, insights |-> <<>>]

NoModel == [exists |-> FALSE, pair |-> 0, version |-> 0,
            latest_metrics |-> <<>>, task_type |-> "none"]

\* MLModel(name, version, filename, user_id, latest_metrics={})
NewModel(pair, version) ==
    [exists |-> TRUE, pair |-> pair, version |-> version,
     latest_metrics |-> <<>>, task_type |-> "none"]

\* Exploration bound: failures, worker losses and model deletions happen
\* only while submission 1 is the only one that has started (Solo), and a
\* further submission starts only while no failure or loss was injected
\* (Calm). Inputs that do not interact between submissions (optional
\* preprocessor, kind of evaluation error, plot failure) vary only in Solo.
\* The model so covers MaxJobs concurrent submissions without failures,
\* and one submission with up to MaxFaults failures and MaxCrashes worker
\* runs ended from outside (process lost, time limit, revoke), followed or
\* not by further submissions.

PipelineInit ==
    /\ spc = [s \in Subs |-> "idle"]
    /\ alert = [s \in Subs |-> "none"]
    /\ fname = [s \in Subs |-> NoName]
    /\ msize = [s \in Subs |-> NoFile]
    /\ tracked = [s \in Subs |-> {}]
    /\ pairOf = [s \in Subs |-> 0]
    /\ cnt = [s \in Subs |-> 0]
    /\ jobRow = [s \in Subs |-> NoJob]
    /\ modelRow = [s \in Subs |-> NoModel]
    /\ metricRecs = [s \in Subs |-> 0]
    /\ modelId = [s \in Subs |-> 0]
    /\ jobId = [s \in Subs |-> 0]
    /\ fk = "any"
    /\ zipFile = [s \in Subs |-> FALSE]
    /\ csvFile = [s \in Subs |-> FALSE]
    /\ tempCopy = [n \in FileNames |-> NoFile]
    /\ loose = [s \in Subs |-> {}]
    /\ jobDir = [i \in Ids |-> "none"]
    /\ queue = [s \in Subs |-> 0]
    /\ retries = [s \in Subs |-> 0]
    /\ celeryState = [s \in Subs |-> "NONE"]
    /\ wpc = [s \in Subs |-> "idle"]
    /\ exc = [s \in Subs |-> "none"]
    /\ entryTerminal = [s \in Subs |-> FALSE]
    /\ pkg = [s \in Subs |-> Unread]
    /\ faults = 0
    /\ crashes = 0

\* the state after construction: no submission yet, no utility running
Init ==
    /\ PipelineInit
    /\ arg = NoCall
    /\ ret = NoRet
    /\ tree = EmptyTree
    /\ now = Epoch
    /\ op = Idle
    /\ hist = NoHist

Solo == \A t \in Subs : t # 1 => spc[t] = "idle"
Calm == faults = 0 /\ crashes = 0

\* an injected failure of a store, broker or disk operation
CanFault == faults < MaxFaults /\ Solo

\* a worker run ended from outside: process lost, time limit or revoke
CanCrash == crashes < MaxCrashes /\ Solo

\* the next value of an autoincrement primary key
NextId(given) ==
    1 + (CHOOSE m \in 0..MaxJobs :
            /\ m \in {given[t] : t \in Subs} \cup {0}
            /\ \A t \in Subs : given[t] <= m)

\* ===================================================== start_evaluation
\* S_Storage with the validation copy written before the storage check
S_Storage_WriteFirst(s) ==
    /\ spc[s] = "idle"
    /\ s = 1 \/ Calm
    /\ \E free_mb \in FreeSamples, n \in NamesFor(s), z \in SizeSamples :
          /\ alert' = [alert EXCEPT ![s] = get_storage_usage(free_mb)]
          /\ fname' = [fname EXCEPT ![s] = n]
          /\ msize' = [msize EXCEPT ![s] = z]
          /\ tempCopy' = [tempCopy EXCEPT ![n] = z]
          /\ spc' = [spc EXCEPT ![s] =
                        IF get_storage_usage(free_mb) = "critical"
                        THEN "rejected_storage" ELSE "validate"]
    /\ UNCHANGED <<sideVars, pkg, tracked, pairOf, cnt, storeVars, zipFile,
                   csvFile, jobDir,
                   loose, taskVars, runVars, faults, crashes>>

\* lines 47-57: a critical alert level rejects the request (507); otherwise
\* the model file is copied to uploads/temp/temp_<filename>, a path that
\* depends on the client's file name only
S_Storage(s) ==
    /\ spc[s] = "idle"
    /\ s = 1 \/ Calm
    /\ \E free_mb \in FreeSamples :
          /\ alert' = [alert EXCEPT ![s] = get_storage_usage(free_mb)]
          /\ IF get_storage_usage(free_mb) = "critical"
             THEN /\ spc' = [spc EXCEPT ![s] = "rejected_storage"]
                  /\ UNCHANGED <<fname, msize, tempCopy>>
             ELSE \E n \in NamesFor(s), z \in SizeSamples :
                     /\ fname' = [fname EXCEPT ![s] = n]
                     /\ msize' = [msize EXCEPT ![s] = z]
                     /\ tempCopy' = [tempCopy EXCEPT ![n] = z]
                     /\ spc' = [spc EXCEPT ![s] = "validate"]
    /\ UNCHANGED <<sideVars, pkg, tracked, pairOf, cnt, storeVars, zipFile,
                   csvFile, jobDir,
                   loose, taskVars, runVars, faults, crashes>>

\* lines 59-69: size and type of the copy are validated; on a rejection the
\* copy is removed (413, 400), on a pass it is left where it is. When the
\* copy is gone, validate_file_size reports False and os.remove raises.
S_Validate(s) ==
    /\ spc[s] = "validate"
    /\ alert' = [alert EXCEPT ![s] = "none"]
    /\ IF tempCopy[fname[s]] = NoFile
       THEN /\ spc' = [spc EXCEPT ![s] = "aborted"]
            /\ UNCHANGED tempCopy
       ELSE IF ~validate_file_size(tempCopy[fname[s]], MaxSizeMb)
       THEN /\ tempCopy' = [tempCopy EXCEPT ![fname[s]] = NoFile]
            /\ spc' = [spc EXCEPT ![s] = "rejected_size"]
       ELSE IF ~validate_file_type(fname[s], AllowedExtensions)
       THEN /\ tempCopy' = [tempCopy EXCEPT ![fname[s]] = NoFile]
            /\ spc' = [spc EXCEPT ![s] = "rejected_type"]
       ELSE /\ spc' = [spc EXCEPT ![s] = "write"]
            /\ UNCHANGED tempCopy
    /\ UNCHANGED <<sideVars, pkg, fname, msize, tracked, pairOf, cnt, storeVars,
                   zipFile, csvFile, jobDir, loose,
                   taskVars, runVars, faults, crashes>>

\* lines 88-101: the dataset, the model and the optional preprocessor are
\* written under names made unique by uuid4; a loose file enters
\* temp_files_for_cleanup only after its write has returned, so a write
\* that raises leaves the files written before it and possibly a part of
\* its own file
S_WriteFiles(s) ==
    /\ spc[s] = "write"
    /\ \/ /\ \E files \in (IF Solo THEN {{"model"}, {"model", "preprocessor"}}
                                   ELSE {{"model", "preprocessor"}}) :
                /\ loose' = [loose EXCEPT ![s] = files]
                /\ tracked' = [tracked EXCEPT ![s] = files]
          /\ csvFile' = [csvFile EXCEPT ![s] = TRUE]
          /\ spc' = [spc EXCEPT ![s] = "zip"]
          /\ UNCHANGED faults
       \/ /\ CanFault
          /\ faults' = faults + 1
          /\ \E at \in {"dataset", "model", "preprocessor"}, part \in BOOLEAN :
                /\ csvFile' = [csvFile EXCEPT ![s] = (at # "dataset") \/ part]
                /\ loose' = [loose EXCEPT ![s] =
                      IF at = "dataset" THEN {}
                      ELSE IF at = "model"
                      THEN (IF part THEN {"model"} ELSE {})
                      ELSE (IF part THEN {"model", "preprocessor"} ELSE {"model"})]
                /\ tracked' = [tracked EXCEPT ![s] =
                      IF at = "preprocessor" THEN {"model"} ELSE {}]
          /\ spc' = [spc EXCEPT ![s] = "except"]
    /\ UNCHANGED <<sideVars, pkg, alert, fname, msize, pairOf, cnt, storeVars,
                   zipFile, jobDir,
                   tempCopy, taskVars, runVars, crashes>>

\* lines 104-115: create_zip_sync builds the package archive and removes
\* the files of temp_files_for_cleanup. No later step writes these paths
\* again, so the list is kept empty from here on.
S_Zip(s) ==
    /\ spc[s] = "zip"
    /\ \/ /\ zipFile' = [zipFile EXCEPT ![s] = TRUE]
          /\ loose' = [loose EXCEPT ![s] = @ \ tracked[s]]
          /\ tracked' = [tracked EXCEPT ![s] = {}]
          /\ spc' = [spc EXCEPT ![s] = "count"]
          /\ UNCHANGED faults
       \/ /\ CanFault
          /\ faults' = faults + 1
          /\ \E written \in BOOLEAN :
                zipFile' = [zipFile EXCEPT ![s] = written]
          /\ spc' = [spc EXCEPT ![s] = "except"]
          /\ UNCHANGED <<loose, tracked>>
    /\ UNCHANGED <<sideVars, pkg, alert, fname, msize, pairOf, cnt, storeVars,
                   csvFile, jobDir, tempCopy, taskVars,
                   runVars, crashes>>

\* lines 118-125: the ModelVersion rows of the caller with this model name
\* are counted
S_Count(s) ==
    /\ spc[s] = "count"
    /\ \/ /\ \E p \in 1..s :
                /\ pairOf' = [pairOf EXCEPT ![s] = p]
                /\ cnt' = [cnt EXCEPT ![s] =
                      Cardinality({t \in Subs : modelRow[t].exists
                                                /\ modelRow[t].pair = p})]
          /\ spc' = [spc EXCEPT ![s] = "insert_model"]
          /\ UNCHANGED faults
       \/ /\ CanFault
          /\ faults' = faults + 1
          /\ spc' = [spc EXCEPT ![s] = "except"]
          /\ UNCHANGED <<pairOf, cnt>>
    /\ UNCHANGED <<sideVars, pkg, alert, fname, msize, tracked, storeVars,
                   fileVars, taskVars,
                   runVars, crashes>>

\* lines 125-136: the ModelVersion row with version "v<count + 1>" is added
\* and committed
S_InsertModel(s) ==
    /\ spc[s] = "insert_model"
    /\ \/ /\ modelRow' = [modelRow EXCEPT ![s] = NewModel(pairOf[s], cnt[s] + 1)]
          /\ modelId' = [modelId EXCEPT ![s] = NextId(modelId)]
          /\ spc' = [spc EXCEPT ![s] = "insert_job"]
          /\ UNCHANGED faults
       \/ /\ CanFault
          /\ faults' = faults + 1
          /\ spc' = [spc EXCEPT ![s] = "except"]
          /\ UNCHANGED <<modelRow, modelId>>
    /\ UNCHANGED <<sideVars, pkg, reqVars, jobRow, metricRecs, jobId, fk, fileVars,
                   taskVars,
                   runVars, crashes>>

\* lines 138-145: the Job row with model_id = ml_model.id is added and
\* committed; the insert fails when the store fails, or when the
\* ModelVersion row is already deleted and the store enforces foreign keys
S_InsertJob(s) ==
    /\ spc[s] = "insert_job"
    /\ \/ /\ modelRow[s].exists
          /\ jobRow' = [jobRow EXCEPT ![s] = NewJob(modelId[s])]
          /\ jobId' = [jobId EXCEPT ![s] = NextId(jobId)]
          /\ spc' = [spc EXCEPT ![s] = "dispatch"]
          /\ UNCHANGED <<fk, faults>>
       \/ /\ ~modelRow[s].exists
          /\ fk \in {"any", "off"}
          /\ fk' = "off"
          /\ jobRow' = [jobRow EXCEPT ![s] = NewJob(modelId[s])]
          /\ jobId' = [jobId EXCEPT ![s] = NextId(jobId)]
          /\ spc' = [spc EXCEPT ![s] = "dispatch"]
          /\ UNCHANGED faults
       \/ /\ ~modelRow[s].exists
          /\ fk \in {"any", "on"}
          /\ fk' = "on"
          /\ spc' = [spc EXCEPT ![s] = "except"]
          /\ UNCHANGED <<jobRow, jobId, faults>>
       \/ /\ CanFault
          /\ faults' = faults + 1
          /\ spc' = [spc EXCEPT ![s] = "except"]
          /\ UNCHANGED <<jobRow, jobId, fk>>
    /\ UNCHANGED <<sideVars, pkg, reqVars, modelRow, metricRecs, modelId, fileVars,
                   taskVars, runVars, crashes>>

\* lines 148-155: evaluate_model_async.delay publishes one message
S_Dispatch(s) ==
    /\ spc[s] = "dispatch"
    /\ \/ /\ queue' = [queue EXCEPT ![s] = @ + 1]
          /\ celeryState' = [celeryState EXCEPT ![s] = "PENDING"]
          /\ spc' = [spc EXCEPT ![s] = "token"]
          /\ UNCHANGED faults
       \/ /\ CanFault
          /\ faults' = faults + 1
          /\ spc' = [spc EXCEPT ![s] = "except"]
          /\ UNCHANGED <<queue, celeryState>>
    /\ UNCHANGED <<sideVars, pkg, reqVars, storeVars, fileVars, retries, runVars,
                   crashes>>

\* S_Token that writes back the whole row as it was loaded at line 145
S_Token_StaleRow(s) ==
    /\ spc[s] = "token"
    /\ \/ /\ jobRow[s].exists
          /\ jobRow' = [jobRow EXCEPT ![s] = [NewJob(modelId[s]) EXCEPT
                                                !.task_id = TRUE]]
          /\ spc' = [spc EXCEPT ![s] = "done"]
          /\ UNCHANGED faults
       \/ /\ ~jobRow[s].exists
          /\ spc' = [spc EXCEPT ![s] = "except"]
          /\ UNCHANGED <<jobRow, faults>>
       \/ /\ CanFault
          /\ faults' = faults + 1
          /\ spc' = [spc EXCEPT ![s] = "except"]
          /\ UNCHANGED jobRow
    /\ UNCHANGED <<sideVars, pkg, reqVars, modelRow, metricRecs, idVars, fileVars,
                   taskVars,
                   runVars, crashes>>

\* lines 158-166: the task id is written on the Job row and committed
S_Token(s) ==
    /\ spc[s] = "token"
    /\ \/ /\ jobRow[s].exists
          /\ jobRow' = [jobRow EXCEPT ![s].task_id = TRUE]
          /\ spc' = [spc EXCEPT ![s] = "done"]
          /\ UNCHANGED faults
       \/ /\ ~jobRow[s].exists
          /\ spc' = [spc EXCEPT ![s] = "except"]
          /\ UNCHANGED <<jobRow, faults>>
       \/ /\ CanFault
          /\ faults' = faults + 1
          /\ spc' = [spc EXCEPT ![s] = "except"]
          /\ UNCHANGED jobRow
    /\ UNCHANGED <<sideVars, pkg, reqVars, modelRow, metricRecs, idVars, fileVars,
                   taskVars,
                   runVars, crashes>>

\* lines 168-187: db.rollback() undoes no committed row; the dataset file,
\* the archive and the files of temp_files_for_cleanup are removed
S_Except(s) ==
    /\ spc[s] = "except"
    /\ csvFile' = [csvFile EXCEPT ![s] = FALSE]
    /\ zipFile' = [zipFile EXCEPT ![s] = FALSE]
    /\ loose' = [loose EXCEPT ![s] = @ \ tracked[s]]
    /\ spc' = [spc EXCEPT ![s] = "failed"]
    /\ UNCHANGED <<sideVars, pkg, reqVars, storeVars, jobDir, tempCopy, taskVars,
                   runVars,
                   faults, crashes>>

\* ========================================================= delete_model
\* app/api/models.py: db.delete(model) cascades to the jobs and metrics
\* that reference the row
DeleteModel(s) ==
    /\ modelRow[s].exists
    /\ Solo
    /\ modelRow' = [modelRow EXCEPT ![s] = NoModel]
    /\ jobRow' = [jobRow EXCEPT ![s] = NoJob]
    /\ metricRecs' = [metricRecs EXCEPT ![s] = 0]
    /\ UNCHANGED <<sideVars, pkg, spc, reqVars, idVars, fileVars, taskVars,
                   runVars, faults,
                   crashes>>

\* ================================================== cleanup_model_files
\* file_cleanup.py 100-124, called by DELETE /storage/model/{model_id}:
\* the directory uploads/eval_jobs/<model_id>/ is removed when it exists
cleanup_model_files(model_id) ==
    /\ jobDir[model_id] # "none"
    /\ jobDir' = [jobDir EXCEPT ![model_id] = "none"]
    /\ UNCHANGED <<sideVars, pkg, spc, reqVars, storeVars, zipFile, csvFile,
                   stageFiles,
                   taskVars, runVars, faults, crashes>>

\* =========================================== cleanup_failed_evaluations
\* file_cleanup.py 190-223, called by POST /storage/cleanup/failed: every
\* directory under uploads/eval_jobs that is empty (or holds .tmp files
\* only; the pipeline writes none) is removed. No Job row is read.
cleanup_failed_evaluations ==
    /\ \E i \in Ids : jobDir[i] = "empty"
    /\ jobDir' = [i \in Ids |-> IF jobDir[i] = "empty" THEN "none" ELSE jobDir[i]]
    /\ UNCHANGED <<sideVars, pkg, spc, reqVars, storeVars, zipFile, csvFile,
                   stageFiles, taskVars, runVars, faults, crashes>>

\* ============================================== tasks.cleanup_old_files
\* tasks.py 75-118, scheduled every hour (celery_app.py 84-87): files that
\* lie directly in uploads/temp or uploads/eval_jobs and are older than 7
\* days are removed, and so is every empty directory in them. The files of
\* the submissions explored here are younger than 7 days.
tasks_cleanup_old_files ==
    /\ \E i \in Ids : jobDir[i] = "empty"
    /\ jobDir' = [i \in Ids |-> IF jobDir[i] = "empty" THEN "none" ELSE jobDir[i]]
    /\ UNCHANGED <<sideVars, pkg, spc, reqVars, storeVars, zipFile, csvFile,
                   stageFiles, taskVars, runVars, faults, crashes>>

\* ================================================= evaluate_model_async
\* a worker-pool slot takes the message of job s; with task_acks_late the
\* message is acknowledged only when the task returns
Deliver(s) ==
    /\ wpc[s] = "idle"
    /\ queue[s] > 0
    /\ queue' = [queue EXCEPT ![s] = @ - 1]
    /\ wpc' = [wpc EXCEPT ![s] = "w_start"]
    /\ exc' = [exc EXCEPT ![s] = "none"]
    /\ entryTerminal' = [entryTerminal EXCEPT
                           ![s] = jobRow[s].exists /\ jobRow[s].status \in Terminal]
    /\ UNCHANGED <<sideVars, pkg, spc, reqVars, storeVars, fileVars, retries,
                   celeryState, faults, crashes>>

\* update_job_status (tasks.py 235-247): load the row and write the status;
\* a missing row is a warning and every exception is logged and swallowed
update_job_status(s, status, ok) ==
    IF ok /\ jobRow[s].exists
    THEN [jobRow EXCEPT ![s].status = status]
    ELSE jobRow

\* tasks.py 252-256: status PROCESSING, then task state PROGRESS
W_SetProcessing(s) ==
    /\ wpc[s] = "w_start"
    /\ \/ /\ jobRow' = update_job_status(s, PROCESSING, TRUE)
          /\ UNCHANGED faults
       \/ /\ CanFault
          /\ faults' = faults + 1
          /\ jobRow' = update_job_status(s, PROCESSING, FALSE)
    /\ celeryState' = [celeryState EXCEPT ![s] = "PROGRESS"]
    /\ wpc' = [wpc EXCEPT ![s] = "r_load"]
    /\ UNCHANGED <<sideVars, pkg, spc, reqVars, modelRow, metricRecs, idVars,
                   fileVars, queue, retries, exc,
                   entryTerminal, crashes>>

\* ================================================== run_evaluation_task
\* plot_url of the run at position pc for upload p: None when the
\* rendering raised, else the confusion matrix of a classification (lines
\* 190-203) or the plot of a regression (lines 212-228)
plot_url(pc, p) ==
    IF pc \in {"r_complete_null", "r_fail_dirty_null"} THEN "null"
    ELSE IF is_classification(p.estimator_type, p.n_unique, p.dtype)
    THEN "confusion_matrix.png"
    ELSE "regression_plot.png"

\* R_Load where a missing row is an error raised to the caller
R_Load_MissingRaises(s) ==
    /\ wpc[s] = "r_load"
    /\ \/ /\ jobRow[s].exists
          /\ wpc' = [wpc EXCEPT ![s] = "r_processing"]
          /\ UNCHANGED faults
       \/ /\ ~jobRow[s].exists
          /\ wpc' = [wpc EXCEPT ![s] = "r_finally_raise"]
          /\ UNCHANGED faults
       \/ /\ CanFault
          /\ faults' = faults + 1
          /\ wpc' = [wpc EXCEPT ![s] = "r_finally_raise"]
    /\ UNCHANGED <<sideVars, pkg, spc, reqVars, storeVars, fileVars, taskVars, exc,
                   entryTerminal, crashes>>

\* R_Load with an early return that skips the cleanup of the uploaded files
R_Load_ReturnSkipsCleanup(s) ==
    /\ wpc[s] = "r_load"
    /\ \/ /\ jobRow[s].exists
          /\ wpc' = [wpc EXCEPT ![s] = "r_processing"]
          /\ UNCHANGED faults
       \/ /\ ~jobRow[s].exists
          /\ wpc' = [wpc EXCEPT ![s] = "w_completed"]
          /\ UNCHANGED faults
       \/ /\ CanFault
          /\ faults' = faults + 1
          /\ wpc' = [wpc EXCEPT ![s] = "r_finally_raise"]
    /\ UNCHANGED <<sideVars, pkg, spc, reqVars, storeVars, fileVars, taskVars, exc,
                   entryTerminal, crashes>>

\* lines 64-69: the Job row is selected. When the select raises, the name
\* `job` of line 255 is unbound, so the handler itself raises and the
\* exception leaves run_evaluation_task after the finally block.
R_Load(s) ==
    /\ wpc[s] = "r_load"
    /\ \/ /\ jobRow[s].exists
          /\ wpc' = [wpc EXCEPT ![s] = "r_processing"]
          /\ UNCHANGED faults
       \/ /\ ~jobRow[s].exists
          /\ wpc' = [wpc EXCEPT ![s] = "r_finally"]
          /\ UNCHANGED faults
       \/ /\ CanFault
          /\ faults' = faults + 1
          /\ wpc' = [wpc EXCEPT ![s] = "r_finally_raise"]
    /\ UNCHANGED <<sideVars, pkg, spc, reqVars, storeVars, fileVars, taskVars, exc,
                   entryTerminal, crashes>>

\* lines 71-72: job.status = PROCESSING is committed; the commit raises
\* when the store fails or the row was deleted since it was loaded
R_Processing(s) ==
    /\ wpc[s] = "r_processing"
    /\ \/ /\ jobRow[s].exists
          /\ jobRow' = [jobRow EXCEPT ![s].status = PROCESSING]
          /\ wpc' = [wpc EXCEPT ![s] = "r_mkdir"]
          /\ UNCHANGED <<exc, faults>>
       \/ /\ ~jobRow[s].exists
          /\ wpc' = [wpc EXCEPT ![s] = "r_fail"]
          /\ exc' = [exc EXCEPT ![s] = ErrStore]
          /\ UNCHANGED <<jobRow, faults>>
       \/ /\ CanFault
          /\ faults' = faults + 1
          /\ wpc' = [wpc EXCEPT ![s] = "r_fail"]
          /\ exc' = [exc EXCEPT ![s] = ErrStore]
          /\ UNCHANGED jobRow
    /\ UNCHANGED <<sideVars, pkg, spc, reqVars, modelRow, metricRecs, idVars,
                   fileVars, taskVars, entryTerminal,
                   crashes>>

\* line 74: os.makedirs(job_dir, exist_ok=True)
R_Mkdir(s) ==
    /\ wpc[s] = "r_mkdir"
    /\ jobDir' = [jobDir EXCEPT ![jobId[s]] = IF @ = "none" THEN "empty" ELSE @]
    /\ wpc' = [wpc EXCEPT ![s] = "r_extract"]
    /\ UNCHANGED <<sideVars, pkg, spc, reqVars, storeVars, zipFile, csvFile,
                   stageFiles, taskVars, exc, entryTerminal,
                   faults, crashes>>

\* lines 77-80: the archive is extracted into the job directory; opening
\* an archive that no longer exists raises
R_Extract(s) ==
    /\ wpc[s] = "r_extract"
    /\ IF zipFile[s]
       THEN /\ jobDir' = [jobDir EXCEPT ![jobId[s]] = "full"]
            /\ wpc' = [wpc EXCEPT ![s] = "r_eval"]
            /\ UNCHANGED exc
       ELSE /\ wpc' = [wpc EXCEPT ![s] = "r_fail"]
            /\ exc' = [exc EXCEPT ![s] = ErrZip]
            /\ UNCHANGED jobDir
    /\ UNCHANGED <<sideVars, pkg, spc, reqVars, storeVars, zipFile, csvFile,
                   stageFiles, taskVars, entryTerminal,
                   faults, crashes>>

\* lines 84-200: locate and load the model, read the dataset, check the
\* target column, preprocess, predict and score. The outcome depends
\* on the uploaded files: the model artifact may be missing from the
\* archive, the dataset file may be gone, the target column may be absent.
\* What the files evaluate to is the same in every run of the job: it is
\* drawn by the first run that gets this far.
R_Evaluate(s) ==
    /\ wpc[s] = "r_eval"
    /\ \/ /\ csvFile[s]
          /\ \E i \in 1..(IF Solo THEN Len(PackageSeq) ELSE 1) :
                pkg' = [pkg EXCEPT ![s] = IF @.read THEN @ ELSE PackageSeq[i]]
          /\ wpc' = [wpc EXCEPT ![s] = "r_plot"]
          /\ UNCHANGED exc
       \/ /\ \E e \in (IF ~csvFile[s] THEN {ErrArtifact, ErrCsv}
                     ELSE IF Solo THEN {ErrArtifact, ErrTarget}
                     ELSE {ErrArtifact}) :
                exc' = [exc EXCEPT ![s] = e]
          /\ wpc' = [wpc EXCEPT ![s] = "r_fail"]
          /\ UNCHANGED pkg
    /\ UNCHANGED <<sideVars, spc, reqVars, storeVars, fileVars, taskVars,
                   entryTerminal, faults, crashes>>

\* R_Plot with a rendering failure that reaches the failure handler
R_Plot_Fatal(s) ==
    /\ wpc[s] = "r_plot"
    /\ \E ok \in (IF Solo THEN BOOLEAN ELSE {TRUE}) :
          IF ok
          THEN /\ wpc' = [wpc EXCEPT ![s] = "r_complete"]
               /\ UNCHANGED exc
          ELSE /\ wpc' = [wpc EXCEPT ![s] = "r_fail"]
               /\ exc' = [exc EXCEPT ![s] = ErrPlot]
    /\ UNCHANGED <<sideVars, pkg, spc, reqVars, storeVars, fileVars, taskVars,
                   entryTerminal, faults, crashes>>

\* lines 202-206 and 227-231: the plot is rendered and saved inside its
\* own try block; when that raises, the error is printed and plot_url is
\* None ("r_complete_null")
R_Plot(s) ==
    /\ wpc[s] = "r_plot"
    /\ \E ok \in (IF Solo THEN BOOLEAN ELSE {TRUE}) :
          wpc' = [wpc EXCEPT ![s] = IF ok THEN "r_complete" ELSE "r_complete_null"]
    /\ UNCHANGED <<sideVars, pkg, spc, reqVars, storeVars, fileVars, taskVars, exc,
                   entryTerminal, faults,
                   crashes>>

\* R_Complete with the ModelVersion written before the commit that fails
R_Complete_ModelFirst(s) ==
    /\ wpc[s] \in {"r_complete", "r_complete_null"}
    /\ \/ /\ jobRow[s].exists
          /\ modelRow[s].exists \/ fk = "off"
          /\ jobRow' = [jobRow EXCEPT ![s].status = COMPLETED,
                                      ![s].results = "metrics",
                                      ![s].metrics = final_metrics(pkg[s]),
                                      ![s].insights =
                                          generate_insights(final_metrics(pkg[s])),
                                      ![s].artifacts = plot_url(wpc[s], pkg[s])]
          /\ modelRow' = IF modelRow[s].exists
                         THEN [modelRow EXCEPT
                                 ![s].latest_metrics = final_metrics(pkg[s]),
                                 ![s].task_type = task_type(pkg[s])]
                         ELSE modelRow
          /\ metricRecs' = [metricRecs EXCEPT ![s] = @ + 1]
          /\ wpc' = [wpc EXCEPT ![s] = "r_finally"]
          /\ UNCHANGED <<exc, faults>>
       \/ /\ ~jobRow[s].exists
          /\ wpc' = [wpc EXCEPT ![s] = "r_fail"]
          /\ exc' = [exc EXCEPT ![s] = ErrStore]
          /\ UNCHANGED <<jobRow, modelRow, metricRecs, faults>>
       \/ /\ CanFault
          /\ faults' = faults + 1
          /\ \E at \in {"r_fail", IF wpc[s] = "r_complete" THEN "r_fail_dirty"
                                  ELSE "r_fail_dirty_null"} :
                wpc' = [wpc EXCEPT ![s] = at]
          /\ exc' = [exc EXCEPT ![s] = ErrStore]
          /\ modelRow' = IF modelRow[s].exists
                         THEN [modelRow EXCEPT
                                 ![s].latest_metrics = final_metrics(pkg[s]),
                                 ![s].task_type = task_type(pkg[s])]
                         ELSE modelRow
          /\ UNCHANGED <<jobRow, metricRecs>>
    /\ UNCHANGED <<sideVars, pkg, spc, reqVars, idVars, fileVars, taskVars,
                   entryTerminal, crashes>>

\* lines 233-250: status, results (the scores and the insights that
\* generate_insights draws from them; the notes on preprocessing that
\* precede the insights belong to no rule set and are left out), artifacts
\* (the plot url, null when the rendering raised) and completed_at are set
\* on the row, the ModelVersion is selected and gets the scores and the
\* task type, a Metric is added and all is committed. The
\* session has autoflush off: when the select of line 241 raises, the new
\* values of the row are still pending in the session ("r_fail_dirty");
\* when the commit raises, the session is rolled back and they are lost.
\* The ModelVersion is looked up by the model_id of the task and skipped
\* when it is gone; a Job row without its ModelVersion exists only in a
\* store without foreign keys, which also accepts the Metric.
R_Complete(s) ==
    /\ wpc[s] \in {"r_complete", "r_complete_null"}
    /\ \/ /\ jobRow[s].exists
          /\ modelRow[s].exists \/ fk = "off"
          /\ jobRow' = [jobRow EXCEPT ![s].status = COMPLETED,
                                      ![s].results = "metrics",
                                      ![s].metrics = final_metrics(pkg[s]),
                                      ![s].insights =
                                          generate_insights(final_metrics(pkg[s])),
                                      ![s].artifacts = plot_url(wpc[s], pkg[s])]
          /\ modelRow' = IF modelRow[s].exists
                         THEN [modelRow EXCEPT
                                 ![s].latest_metrics = final_metrics(pkg[s]),
                                 ![s].task_type = task_type(pkg[s])]
                         ELSE modelRow
          /\ metricRecs' = [metricRecs EXCEPT ![s] = @ + 1]
          /\ wpc' = [wpc EXCEPT ![s] = "r_finally"]
          /\ UNCHANGED <<exc, faults>>
       \/ /\ ~jobRow[s].exists
          /\ wpc' = [wpc EXCEPT ![s] = "r_fail"]
          /\ exc' = [exc EXCEPT ![s] = ErrStore]
          /\ UNCHANGED <<jobRow, modelRow, metricRecs, faults>>
       \/ /\ CanFault
          /\ faults' = faults + 1
          /\ \E at \in {"r_fail", IF wpc[s] = "r_complete" THEN "r_fail_dirty"
                                  ELSE "r_fail_dirty_null"} :
                wpc' = [wpc EXCEPT ![s] = at]
          /\ exc' = [exc EXCEPT ![s] = ErrStore]
          /\ UNCHANGED <<jobRow, modelRow, metricRecs>>
    /\ UNCHANGED <<sideVars, pkg, spc, reqVars, idVars, fileVars, taskVars,
                   entryTerminal, crashes>>

\* R_Fail where a failing commit of the FAILED status is raised again
R_Fail_CommitRaises(s) ==
    /\ wpc[s] \in {"r_fail", "r_fail_dirty", "r_fail_dirty_null"}
    /\ \/ /\ jobRow[s].exists
          /\ IF wpc[s] # "r_fail"
             THEN jobRow' = [jobRow EXCEPT ![s].status = FAILED,
                                          ![s].error = exc[s],
                                          ![s].results = "metrics",
                                          ![s].metrics = final_metrics(pkg[s]),
                                          ![s].insights =
                                              generate_insights(final_metrics(pkg[s])),
                                          ![s].artifacts = plot_url(wpc[s], pkg[s])]
             ELSE jobRow' = [jobRow EXCEPT ![s].status = FAILED,
                                           ![s].error = exc[s]]
          /\ wpc' = [wpc EXCEPT ![s] = "r_rmtree"]
          /\ UNCHANGED faults
       \/ /\ ~jobRow[s].exists
          /\ wpc' = [wpc EXCEPT ![s] = "r_rmtree"]
          /\ UNCHANGED <<jobRow, faults>>
       \/ /\ CanFault
          /\ faults' = faults + 1
          /\ wpc' = [wpc EXCEPT ![s] = "r_finally_raise"]
          /\ UNCHANGED jobRow
    /\ UNCHANGED <<sideVars, pkg, spc, reqVars, modelRow, metricRecs, idVars,
                   fileVars, taskVars, exc,
                   entryTerminal, crashes>>

\* lines 252-261: status FAILED and the exception's message are committed
\* together with whatever is pending in the session; a failing commit is
\* printed and swallowed
R_Fail(s) ==
    /\ wpc[s] \in {"r_fail", "r_fail_dirty", "r_fail_dirty_null"}
    /\ \/ /\ jobRow[s].exists
          /\ IF wpc[s] # "r_fail"
             THEN jobRow' = [jobRow EXCEPT ![s].status = FAILED,
                                          ![s].error = exc[s],
                                          ![s].results = "metrics",
                                          ![s].metrics = final_metrics(pkg[s]),
                                          ![s].insights =
                                              generate_insights(final_metrics(pkg[s])),
                                          ![s].artifacts = plot_url(wpc[s], pkg[s])]
             ELSE jobRow' = [jobRow EXCEPT ![s].status = FAILED,
                                           ![s].error = exc[s]]
          /\ UNCHANGED faults
       \/ /\ ~jobRow[s].exists
          /\ UNCHANGED <<jobRow, faults>>
       \/ /\ CanFault
          /\ faults' = faults + 1
          /\ UNCHANGED jobRow
    /\ wpc' = [wpc EXCEPT ![s] = "r_rmtree"]
    /\ UNCHANGED <<sideVars, pkg, spc, reqVars, modelRow, metricRecs, idVars,
                   fileVars, taskVars, exc,
                   entryTerminal, crashes>>

\* R_Rmtree that removes the whole artifact root uploads/eval_jobs
R_Rmtree_Root(s) ==
    /\ wpc[s] = "r_rmtree"
    /\ jobDir' = [i \in Ids |-> "none"]
    /\ wpc' = [wpc EXCEPT ![s] = "r_finally"]
    /\ UNCHANGED <<sideVars, pkg, spc, reqVars, storeVars, zipFile, csvFile,
                   stageFiles, taskVars, exc, entryTerminal,
                   faults, crashes>>

\* lines 264-268: the job directory is removed when it exists
R_Rmtree(s) ==
    /\ wpc[s] = "r_rmtree"
    /\ jobDir' = [jobDir EXCEPT ![jobId[s]] = "none"]
    /\ wpc' = [wpc EXCEPT ![s] = "r_finally"]
    /\ UNCHANGED <<sideVars, pkg, spc, reqVars, storeVars, zipFile, csvFile,
                   stageFiles, taskVars, exc, entryTerminal,
                   faults, crashes>>

\* lines 269-282: the finally block removes the archive and the dataset
\* file; then run_evaluation_task returns ("r_finally"), or the exception
\* raised by the handler goes on to the caller ("r_finally_raise"), or the
\* cancelled coroutine ends and the exception that stopped the event loop
\* reaches the retry of tasks.py 293-295 ("r_finally_cancel")
R_Finally(s) ==
    /\ wpc[s] \in {"r_finally", "r_finally_raise", "r_finally_cancel"}
    /\ zipFile' = [zipFile EXCEPT ![s] = FALSE]
    /\ csvFile' = [csvFile EXCEPT ![s] = FALSE]
    /\ wpc' = [wpc EXCEPT ![s] = CASE @ = "r_finally" -> "w_completed"
                                   [] @ = "r_finally_raise" -> "w_failed"
                                   [] OTHER -> "w_retry"]
    /\ UNCHANGED <<sideVars, pkg, spc, reqVars, storeVars, jobDir, stageFiles,
                   taskVars, exc, entryTerminal, faults,
                   crashes>>

\* tasks.py 269-276: run_evaluation_task returned: status COMPLETED is
\* written, the task state is SUCCESS and the message is acknowledged
W_SetCompleted(s) ==
    /\ wpc[s] = "w_completed"
    /\ \/ /\ jobRow' = update_job_status(s, COMPLETED, TRUE)
          /\ UNCHANGED faults
       \/ /\ CanFault
          /\ faults' = faults + 1
          /\ jobRow' = update_job_status(s, COMPLETED, FALSE)
    /\ celeryState' = [celeryState EXCEPT ![s] = "SUCCESS"]
    /\ wpc' = [wpc EXCEPT ![s] = "idle"]
    /\ entryTerminal' = [entryTerminal EXCEPT ![s] = FALSE]
    /\ UNCHANGED <<sideVars, pkg, spc, reqVars, modelRow, metricRecs, idVars,
                   fileVars, queue, retries, exc, crashes>>

\* tasks.py 278-295: run_evaluation_task raised: status FAILED is written,
\* the task state is FAILURE and self.retry publishes the task again until
\* max_retries is reached
W_SetFailed(s) ==
    /\ wpc[s] = "w_failed"
    /\ \/ /\ jobRow' = update_job_status(s, FAILED, TRUE)
          /\ UNCHANGED faults
       \/ /\ CanFault
          /\ faults' = faults + 1
          /\ jobRow' = update_job_status(s, FAILED, FALSE)
    /\ IF retries[s] < MaxRetries
       THEN /\ retries' = [retries EXCEPT ![s] = @ + 1]
            /\ queue' = [queue EXCEPT ![s] = @ + 1]
            /\ celeryState' = [celeryState EXCEPT ![s] = "RETRY"]
       ELSE /\ celeryState' = [celeryState EXCEPT ![s] = "FAILURE"]
            /\ UNCHANGED <<retries, queue>>
    /\ wpc' = [wpc EXCEPT ![s] = "idle"]
    /\ entryTerminal' = [entryTerminal EXCEPT ![s] = FALSE]
    /\ UNCHANGED <<sideVars, pkg, spc, reqVars, modelRow, metricRecs, idVars,
                   fileVars, exc, crashes>>

\* tasks.py 290-295: an exception that left asyncio.run without passing
\* through run_evaluation_async's handler is retried; no status is written
W_Retry(s) ==
    /\ wpc[s] = "w_retry"
    /\ IF retries[s] < MaxRetries
       THEN /\ retries' = [retries EXCEPT ![s] = @ + 1]
            /\ queue' = [queue EXCEPT ![s] = @ + 1]
            /\ celeryState' = [celeryState EXCEPT ![s] = "RETRY"]
       ELSE /\ celeryState' = [celeryState EXCEPT ![s] = "FAILURE"]
            /\ UNCHANGED <<retries, queue>>
    /\ wpc' = [wpc EXCEPT ![s] = "idle"]
    /\ entryTerminal' = [entryTerminal EXCEPT ![s] = FALSE]
    /\ UNCHANGED <<sideVars, pkg, spc, reqVars, storeVars, fileVars, exc, faults,
                   crashes>>

\* celery_app.py 52, 107: the worker process is lost in the middle of a
\* run; with task_acks_late and task_reject_on_worker_lost the
\* unacknowledged message is delivered again
Crash(s) ==
    /\ wpc[s] # "idle"
    /\ CanCrash
    /\ crashes' = crashes + 1
    /\ queue' = [queue EXCEPT ![s] = @ + 1]
    /\ wpc' = [wpc EXCEPT ![s] = "idle"]
    /\ entryTerminal' = [entryTerminal EXCEPT ![s] = FALSE]
    /\ UNCHANGED <<sideVars, pkg, spc, reqVars, storeVars, fileVars, retries,
                   celeryState, exc, faults>>

\* the part of run_evaluation_task that runs with the Job row loaded and
\* PROCESSING committed, inside the try block of line 63
TryBody == {"r_mkdir", "r_extract", "r_eval", "r_plot", "r_complete",
            "r_complete_null"}

\* celery_app.py 61 (task_soft_time_limit): SoftTimeLimitExceeded is raised
\* in the main thread of the worker process. When that thread is running
\* the coroutine, `except Exception` of line 252 catches it; when it is
\* inside the event loop, waiting for a thread or for the store, the
\* exception leaves asyncio.run, which cancels the coroutine: the handler
\* is skipped (CancelledError is no Exception) and only the finally block
\* runs.
SoftLimit(s) ==
    /\ wpc[s] \in TryBody
    /\ CanCrash
    /\ crashes' = crashes + 1
    /\ exc' = [exc EXCEPT ![s] = ErrSoftLimit]
    /\ \E at \in {"r_fail", "r_finally_cancel"} :
          wpc' = [wpc EXCEPT ![s] = at]
    /\ UNCHANGED <<sideVars, pkg, spc, reqVars, storeVars, fileVars, taskVars,
                   entryTerminal, faults>>

\* celery_app.py 60 (task_time_limit): the pool kills the process that runs
\* the task; the task is marked failed with TimeLimitExceeded and its
\* message is acknowledged. No code of the task runs any more.
HardLimit(s) ==
    /\ wpc[s] # "idle"
    /\ CanCrash
    /\ crashes' = crashes + 1
    /\ exc' = [exc EXCEPT ![s] = ErrHardLimit]
    /\ celeryState' = [celeryState EXCEPT ![s] = "FAILURE"]
    /\ wpc' = [wpc EXCEPT ![s] = "idle"]
    /\ entryTerminal' = [entryTerminal EXCEPT ![s] = FALSE]
    /\ UNCHANGED <<sideVars, pkg, spc, reqVars, storeVars, fileVars, queue,
                   retries, faults>>

\* cancel_task that also marks the Job row FAILED
cancel_task_MarksFailed(s) ==
    /\ spc[s] = "done"
    /\ queue[s] > 0 \/ wpc[s] # "idle"
    /\ CanCrash
    /\ crashes' = crashes + 1
    /\ queue' = [queue EXCEPT ![s] = 0]
    /\ celeryState' = [celeryState EXCEPT ![s] = "REVOKED"]
    /\ wpc' = [wpc EXCEPT ![s] = "idle"]
    /\ entryTerminal' = [entryTerminal EXCEPT ![s] = FALSE]
    /\ jobRow' = update_job_status(s, FAILED, TRUE)
    /\ UNCHANGED <<sideVars, pkg, spc, reqVars, modelRow, metricRecs, idVars,
                   fileVars, retries, exc, faults>>

\* evaluations.py 291-303 and task_queue.py 27-32: POST /cancel/{task_id}
\* calls celery_app.control.revoke(task_id, terminate=True) for the token
\* the submission returned: a message still in the queue is discarded, the
\* process that runs the task is terminated, the task is REVOKED. Neither
\* function touches the store or a file.
cancel_task(s) ==
    /\ spc[s] = "done"
    /\ queue[s] > 0 \/ wpc[s] # "idle"
    /\ CanCrash
    /\ crashes' = crashes + 1
    /\ queue' = [queue EXCEPT ![s] = 0]
    /\ celeryState' = [celeryState EXCEPT ![s] = "REVOKED"]
    /\ wpc' = [wpc EXCEPT ![s] = "idle"]
    /\ entryTerminal' = [entryTerminal EXCEPT ![s] = FALSE]
    /\ UNCHANGED <<sideVars, pkg, spc, reqVars, storeVars, fileVars, retries, exc,
                   faults>>

\* ------------------------------------------------------- specification
Stager(s) ==
    \/ S_Storage(s)
    \/ S_Validate(s)
    \/ S_WriteFiles(s)
    \/ S_Zip(s)
    \/ S_Count(s)
    \/ S_InsertModel(s)
    \/ S_InsertJob(s)
    \/ S_Dispatch(s)
    \/ S_Token(s)
    \/ S_Except(s)

Worker(s) ==
    \/ Deliver(s)
    \/ W_SetProcessing(s)
    \/ R_Load(s)
    \/ R_Processing(s)
    \/ R_Mkdir(s)
    \/ R_Extract(s)
    \/ R_Evaluate(s)
    \/ R_Plot(s)
    \/ R_Complete(s)
    \/ R_Fail(s)
    \/ R_Rmtree(s)
    \/ R_Finally(s)
    \/ W_SetCompleted(s)
    \/ W_SetFailed(s)
    \/ W_Retry(s)

Next ==
    \E s \in Subs :
        \/ Stager(s)
        \/ Worker(s)
        \/ Crash(s)
        \/ SoftLimit(s)
        \/ HardLimit(s)
        \/ cancel_task(s)
        \/ DeleteModel(s)
        \/ cleanup_model_files(s)
        \/ cleanup_failed_evaluations
        \/ tasks_cleanup_old_files

Spec == Init /\ [][Next]_vars

\* the worker pool is fair: a delivered or deliverable task keeps running
FairSpec == Spec /\ \A s \in Subs : WF_vars(Worker(s))

\* ======================================================= pure functions
\* A call of generate_insights or of the task type decision, for every
\* argument of the samples.
Call_generate_insights ==
    /\ arg.fn = "generate_insights"
    /\ ~ret.done
    /\ ret' = Returned(generate_insights(arg.metrics))
    /\ UNCHANGED <<pipeVars, arg, lifeVars>>

Call_is_classification ==
    /\ arg.fn = "is_classification"
    /\ ~ret.done
    /\ ret' = Returned(is_classification(arg.estimator_type, arg.n_unique, arg.dtype))
    /\ UNCHANGED <<pipeVars, arg, lifeVars>>

\* a call of one of the two functions that report the alert level
Call_get_storage_usage ==
    /\ arg.fn = "get_storage_usage"
    /\ ~ret.done
    /\ ret' = Returned(get_storage_usage(arg.free_mb))
    /\ UNCHANGED <<pipeVars, arg, lifeVars>>

Call_check_storage_status ==
    /\ arg.fn = "check_storage_status"
    /\ ~ret.done
    /\ ret' = Returned(check_storage_status(arg.free_mb))
    /\ UNCHANGED <<pipeVars, arg, lifeVars>>

FnInit ==
    /\ PipelineInit
    /\ arg \in InsightCalls \cup TaskTypeCalls \cup StorageCalls
    /\ ret = NoRet
    /\ tree = EmptyTree
    /\ now = Epoch
    /\ op = Idle
    /\ hist = NoHist

FnNext ==
    \/ Call_generate_insights
    \/ Call_is_classification
    \/ Call_get_storage_usage
    \/ Call_check_storage_status

FnSpec == FnInit /\ [][FnNext]_vars

\* ============================================== storage utilities at work
\* One utility of file_cleanup.py runs at a time, step by step, while
\* worker runs create and remove job directories and the clock advances.

\* os.walk(uploads_dir) lists the root; a pass over a missing root is over
StartPass(o) ==
    IF tree.root
    THEN [o EXCEPT !.pc = "walk", !.dirs = {i \in Ids : tree.dir[i]},
                   !.d = 0, !.names = {}]
    ELSE [o EXCEPT !.pc = IF o.kind = "emergency" /\ o.pass = 1
                          THEN "usage" ELSE "return"]

\* cleanup_old_files_Start with a cutoff one day too early
cleanup_old_files_Start_EarlyCutoff(days_old) ==
    /\ op = Idle
    /\ op' = StartPass([Idle EXCEPT !.kind = "sweep", !.days = days_old,
                                    !.at = now, !.cutoff = now - days_old - 1])
    /\ UNCHANGED <<pipeVars, fnVars, tree, now, hist>>

\* cleanup_old_files, lines 56-73: cutoff_date = now - days_old; a missing
\* root returns at once
cleanup_old_files_Start(days_old) ==
    /\ op = Idle
    /\ op' = StartPass([Idle EXCEPT !.kind = "sweep", !.days = days_old,
                                    !.at = now, !.cutoff = now - days_old])
    /\ UNCHANGED <<pipeVars, fnVars, tree, now, hist>>

\* line 75: os.walk goes on to the next directory and lists its files; a
\* directory that is gone yields nothing. After the last directory the
\* pass is over.
cleanup_old_files_Dir ==
    /\ op.pc = "walk"
    /\ op.names = {}
    /\ op' = IF op.dirs = {}
             THEN [op EXCEPT !.pc = IF op.kind = "emergency" /\ op.pass = 1
                                    THEN "usage" ELSE "return"]
             ELSE [op EXCEPT !.d = FirstDir(op.dirs),
                             !.dirs = @ \ {FirstDir(op.dirs)},
                             !.names = listdir(tree, FirstDir(op.dirs))]
    /\ UNCHANGED <<pipeVars, fnVars, tree, now, hist>>

\* cleanup_old_files_File with getmtime called outside the try block
cleanup_old_files_File_NoTry ==
    /\ op.pc = "walk"
    /\ op.names # {}
    /\ LET n == FirstName(op.names)
           f == <<op.d, n>>
           o == [op EXCEPT !.names = @ \ {n}]
       IN  \/ /\ tree.mtime[f] = NoFile
              /\ op' = [o EXCEPT !.pc = "raised"]
              /\ UNCHANGED <<tree, hist>>
           \/ /\ tree.mtime[f] # NoFile
              /\ tree.mtime[f] < op.cutoff
              /\ tree' = [tree EXCEPT !.mtime[f] = NoFile]
              /\ op' = [o EXCEPT !.removed[op.pass] = @ + 1]
              /\ UNCHANGED hist
           \/ /\ tree.mtime[f] # NoFile
              /\ tree.mtime[f] < op.cutoff
              /\ hist.fails < MaxUnlinkFailures
              /\ hist' = [hist EXCEPT !.fails = @ + 1]
              /\ op' = [o EXCEPT !.errors[op.pass] = @ + 1]
              /\ UNCHANGED tree
           \/ /\ tree.mtime[f] # NoFile
              /\ tree.mtime[f] >= op.cutoff
              /\ op' = o
              /\ UNCHANGED <<tree, hist>>
    /\ UNCHANGED <<pipeVars, fnVars, now>>

\* lines 76-86, one listed file: getmtime raises when the file is gone,
\* os.remove may raise; either exception is caught and appended to errors
cleanup_old_files_File ==
    /\ op.pc = "walk"
    /\ op.names # {}
    /\ LET n == FirstName(op.names)
           f == <<op.d, n>>
           o == [op EXCEPT !.names = @ \ {n}]
       IN  \/ /\ tree.mtime[f] = NoFile
              /\ op' = [o EXCEPT !.errors[op.pass] = @ + 1]
              /\ UNCHANGED <<tree, hist>>
           \/ /\ tree.mtime[f] # NoFile
              /\ tree.mtime[f] < op.cutoff
              /\ tree' = [tree EXCEPT !.mtime[f] = NoFile]
              /\ op' = [o EXCEPT !.removed[op.pass] = @ + 1]
              /\ UNCHANGED hist
           \/ /\ tree.mtime[f] # NoFile
              /\ tree.mtime[f] < op.cutoff
              /\ hist.fails < MaxUnlinkFailures
              /\ hist' = [hist EXCEPT !.fails = @ + 1]
              /\ op' = [o EXCEPT !.errors[op.pass] = @ + 1]
              /\ UNCHANGED tree
           \/ /\ tree.mtime[f] # NoFile
              /\ tree.mtime[f] >= op.cutoff
              /\ op' = o
              /\ UNCHANGED <<tree, hist>>
    /\ UNCHANGED <<pipeVars, fnVars, now>>

\* emergency_cleanup, lines 126-136: cleanup_old_files(days_old=1)
emergency_cleanup_Start ==
    /\ op = Idle
    /\ op' = StartPass([Idle EXCEPT !.kind = "emergency", !.days = EmergencyDays,
                                    !.at = now, !.cutoff = now - EmergencyDays])
    /\ UNCHANGED <<pipeVars, fnVars, tree, now, hist>>

\* emergency_cleanup_Usage whose second pass has no age threshold
emergency_cleanup_Usage_NoThreshold ==
    /\ op.pc = "usage"
    /\ \E free_mb \in FreeSamples :
          op' = IF get_storage_usage(free_mb) = "critical"
                THEN StartPass([op EXCEPT !.pass = 2, !.days = 0,
                                          !.cutoff = now,
                                          !.alert = "critical"])
                ELSE [op EXCEPT !.pc = "return",
                                !.alert = get_storage_usage(free_mb)]
    /\ UNCHANGED <<pipeVars, fnVars, tree, now, hist>>

\* lines 138-141: get_storage_usage(); a critical level starts
\* cleanup_old_files(days_old=3)
emergency_cleanup_Usage ==
    /\ op.pc = "usage"
    /\ \E free_mb \in FreeSamples :
          op' = IF get_storage_usage(free_mb) = "critical"
                THEN StartPass([op EXCEPT !.pass = 2, !.days = EmergencyDays2,
                                          !.cutoff = now - EmergencyDays2,
                                          !.alert = "critical"])
                ELSE [op EXCEPT !.pc = "return",
                                !.alert = get_storage_usage(free_mb)]
    /\ UNCHANGED <<pipeVars, fnVars, tree, now, hist>>

\* cleanup_model_files, lines 100-113: os.path.exists(model_dir)
cleanup_model_files_Exists(model_id) ==
    /\ op = Idle
    /\ op' = [Idle EXCEPT !.kind = "purge_model", !.d = model_id,
                          !.pc = IF tree.dir[model_id] THEN "rmtree" ELSE "return"]
    /\ UNCHANGED <<pipeVars, fnVars, tree, now, hist>>

\* lines 114-120: shutil.rmtree(model_dir); when the directory is gone by
\* now the exception is caught and stored in result["error"]
cleanup_model_files_Rmtree ==
    /\ op.pc = "rmtree"
    /\ IF tree.dir[op.d]
       THEN /\ tree' = rmtree(tree, op.d)
            /\ op' = [op EXCEPT !.pc = "return", !.removed[1] = 1]
       ELSE /\ op' = [op EXCEPT !.pc = "return", !.errors[1] = 1]
            /\ UNCHANGED tree
    /\ UNCHANGED <<pipeVars, fnVars, now, hist>>

\* cleanup_failed_evaluations, lines 190-204: a missing root returns at once
cleanup_failed_evaluations_Start ==
    /\ op = Idle
    /\ op' = [Idle EXCEPT !.kind = "purge_incomplete",
                          !.pc = IF tree.root THEN "listroot" ELSE "return"]
    /\ UNCHANGED <<pipeVars, fnVars, tree, now, hist>>

\* line 206: os.listdir(uploads_dir), outside every try block
cleanup_failed_evaluations_ListRoot ==
    /\ op.pc = "listroot"
    /\ op' = IF tree.root
             THEN [op EXCEPT !.pc = "scan", !.dirs = {i \in Ids : tree.dir[i]}]
             ELSE [op EXCEPT !.pc = "raised"]
    /\ UNCHANGED <<pipeVars, fnVars, tree, now, hist>>

\* lines 206-208: the next entry of the listing; os.path.isdir is False for
\* an entry that is gone
cleanup_failed_evaluations_IsDir ==
    /\ op.pc = "scan"
    /\ op' = IF op.dirs = {}
             THEN [op EXCEPT !.pc = "return"]
             ELSE [op EXCEPT !.d = FirstDir(op.dirs),
                             !.dirs = @ \ {FirstDir(op.dirs)},
                             !.pc = IF tree.dir[FirstDir(op.dirs)]
                                    THEN "inspect" ELSE "scan"]
    /\ UNCHANGED <<pipeVars, fnVars, tree, now, hist>>

\* lines 209-217: os.listdir(job_path) raises when the directory is gone;
\* a directory that is empty or holds .tmp files only is removed
cleanup_failed_evaluations_Inspect ==
    /\ op.pc = "inspect"
    /\ IF ~tree.dir[op.d]
       THEN /\ op' = [op EXCEPT !.pc = "scan", !.errors[1] = @ + 1]
            /\ UNCHANGED tree
       ELSE IF \A n \in listdir(tree, op.d) : endswith_tmp(n)
       THEN /\ tree' = rmtree(tree, op.d)
            /\ op' = [op EXCEPT !.pc = "scan", !.removed[1] = @ + 1]
       ELSE /\ op' = [op EXCEPT !.pc = "scan"]
            /\ UNCHANGED tree
    /\ UNCHANGED <<pipeVars, fnVars, now, hist>>

\* the utility returns its result dictionary; hist keeps the threshold,
\* the start time and the errors of a cleanup_old_files that was the last
\* utility to run
Return ==
    /\ op.pc = "return"
    /\ op' = Idle
    /\ hist' = IF op.kind = "sweep"
               THEN [hist EXCEPT !.days = op.days, !.at = op.at,
                                 !.errors = op.errors[1], !.quiet = TRUE]
               ELSE [hist EXCEPT !.days = 0, !.quiet = FALSE]
    /\ UNCHANGED <<pipeVars, fnVars, tree, now>>

\* main_evaluator.py 74-80: a worker run creates a job directory and
\* extracts the archive into it; the new file has the current time
worker_extract(d) ==
    /\ hist.env < MaxEnv
    /\ tree' = [tree EXCEPT !.root = TRUE, !.dir[d] = TRUE,
                            !.mtime[<<d, "model.pkl">>] = now]
    /\ hist' = [hist EXCEPT !.env = @ + 1, !.quiet = FALSE]
    /\ UNCHANGED <<pipeVars, fnVars, now, op>>

\* main_evaluator.py 264-268: the failure cleanup of a worker run removes
\* its job directory
worker_rmtree(d) ==
    /\ hist.env < MaxEnv
    /\ tree.dir[d]
    /\ tree' = rmtree(tree, d)
    /\ hist' = [hist EXCEPT !.env = @ + 1]
    /\ UNCHANGED <<pipeVars, fnVars, now, op>>

\* time passes
Tick ==
    /\ now < MaxNow
    /\ now' = now + 1
    /\ UNCHANGED <<pipeVars, fnVars, tree, op, hist>>

LifeInit ==
    /\ PipelineInit
    /\ arg = NoCall
    /\ ret = NoRet
    /\ tree \in Trees
    /\ now = Epoch
    /\ op = Idle
    /\ hist = NoHist

LifeNext ==
    \/ \E days_old \in DaysSamples : cleanup_old_files_Start(days_old)
    \/ cleanup_old_files_Dir
    \/ cleanup_old_files_File
    \/ emergency_cleanup_Start
    \/ emergency_cleanup_Usage
    \/ \E model_id \in Ids : cleanup_model_files_Exists(model_id)
    \/ cleanup_model_files_Rmtree
    \/ cleanup_failed_evaluations_Start
    \/ cleanup_failed_evaluations_ListRoot
    \/ cleanup_failed_evaluations_IsDir
    \/ cleanup_failed_evaluations_Inspect
    \/ Return
    \/ \E d \in Ids : worker_extract(d) \/ worker_rmtree(d)
    \/ Tick

\* the storage utilities applied to an arbitrary artifact tree
LifeSpec == LifeInit /\ [][LifeNext]_vars

\* =============================================================== claims
Exists(s) == jobRow[s].exists
Status(s) == jobRow[s].status

\* the directory of job s: uploads/eval_jobs/<jobId[s]>
Dir(s) == IF jobId[s] = 0 THEN "none" ELSE jobDir[jobId[s]]

\* a step of the worker run of job s (every such step moves wpc[s])
WorkerStep(s) == wpc'[s] # wpc[s]

\* C1: once the status of a Job is COMPLETED or FAILED no later step
\* changes it.
C1_TerminalStable ==
    [][\A s \in Subs :
        (Exists(s) /\ Status(s) \in Terminal /\ jobRow'[s].exists)
            => jobRow'[s].status = Status(s)]_vars

\* C2: a COMPLETED Job has a non-empty result payload and an empty error
\* message.
C2_CompletedPayload ==
    \A s \in Subs :
        (Exists(s) /\ Status(s) = COMPLETED)
            => (jobRow[s].results # "none" /\ jobRow[s].error = "none")

\* C3: a FAILED Job has a non-empty error message and empty result and
\* artifact payloads.
C3_FailedPayload ==
    \A s \in Subs :
        (Exists(s) /\ Status(s) = FAILED)
            => /\ jobRow[s].error # "none"
               /\ jobRow[s].results = "none"
               /\ jobRow[s].artifacts = "none"

\* C4: when a stage of the run raised for a loaded Job row and the
\* dispatched task has finished, the Job is FAILED with the exception's
\* message.
C4_FailureRecorded ==
    \A s \in Subs :
        (Exists(s) /\ wpc[s] = "idle" /\ celeryState[s] = "SUCCESS" /\ exc[s] # "none")
            => (Status(s) = FAILED /\ jobRow[s].error = exc[s])

\* C5: the job directory of a FAILED Job does not exist.
C5_FailedNoDir ==
    \A s \in Subs :
        (Exists(s) /\ Status(s) = FAILED) => Dir(s) = "none"

\* C6: a worker run started for a Job that is already COMPLETED or FAILED
\* changes neither the Job row, nor the ModelVersion row, nor the
\* MetricRecords, nor the job directory.
C6_RerunNoOp ==
    [][\A s \in Subs :
        (entryTerminal[s] /\ WorkerStep(s))
            => /\ jobRow'[s] = jobRow[s]
               /\ modelRow'[s] = modelRow[s]
               /\ metricRecs'[s] = metricRecs[s]
               /\ jobDir'[jobId[s]] = jobDir[jobId[s]]]_vars

\* C7: the status of a Job never changes from PENDING directly to
\* COMPLETED or FAILED.
C7_NoSkip ==
    [][\A s \in Subs :
        (Exists(s) /\ Status(s) = PENDING /\ jobRow'[s].exists)
            => jobRow'[s].status \in {PENDING, PROCESSING}]_vars

\* C8: under fairness of the worker pool every Job of a
\* successful submission eventually is COMPLETED or FAILED (a Job deleted
\* with its model is no Job any more).
C8_EventuallyTerminal ==
    \A s \in Subs :
        (spc[s] = "done") ~> (~Exists(s) \/ Status(s) \in Terminal)

C10_FailedSubmissionNoRows ==
    \A s \in Subs :
        spc[s] = "failed" => (~modelRow[s].exists /\ ~Exists(s))

\* C11: after a submission that failed past validation none of the files
\* it wrote under uploads/temp exists: dataset, loose model, loose
\* preprocessor, archive and validation copy.
C11_FailedSubmissionNoFiles ==
    \A s \in Subs :
        spc[s] = "failed"
            => /\ ~csvFile[s]
               /\ ~zipFile[s]
               /\ loose[s] = {}
               /\ tempCopy[fname[s]] = NoFile

\* C12: the step by which a submission returns success leaves one new
\* ModelVersion row and one new Job row of that submission, and the Job row
\* carries the id of that ModelVersion row.
C12_SuccessCreatesBoth ==
    [][\A s \in Subs :
        (spc[s] # "done" /\ spc'[s] = "done")
            => /\ modelRow'[s].exists
               /\ jobRow'[s].exists
               /\ modelId'[s] # 0
               /\ jobRow'[s].model_id = modelId'[s]]_vars

\* C13: after a submission that returned success neither a loose model or
\* preprocessor file nor the validation copy of that submission exists.
C13_SuccessNoTempFiles ==
    \A s \in Subs :
        spc[s] = "done" => (loose[s] = {} /\ tempCopy[fname[s]] = NoFile)

\* C14: a submission that reads a critical alert level is rejected by that
\* very step, and the step writes no file, creates no row and dispatches no
\* task.
C14_CriticalNoTrace ==
    [][\A s \in Subs :
        (spc[s] = "idle" /\ alert'[s] = "critical")
            => /\ spc'[s] = "rejected_storage"
               /\ UNCHANGED <<fileVars, storeVars, taskVars>>]_vars

C14_Witness ==
    \E s \in Subs :
        /\ spc[s] = "rejected_storage"
        /\ alert[s] = "critical"
        /\ fname[s] = NoName
        /\ \E t \in Subs : spc[t] = "done" /\ tempCopy[fname[t]] # NoFile

\* C15: the validation step of a submission whose model file is over the
\* size ceiling or has an extension outside the allow-list rejects it, and
\* leaves no row, no task and no validation copy.
C15_InvalidRejected ==
    [][\A s \in Subs :
        (/\ spc[s] = "validate"
         /\ spc'[s] # "validate"
         /\ \/ msize[s] > MaxSizeMb * BytesPerMb
            \/ Lower(fname[s].ext) \notin AllowedExtensions)
            => /\ spc'[s] \in {"rejected_size", "rejected_type", "aborted"}
               /\ tempCopy'[fname[s]] = NoFile
               /\ UNCHANGED <<storeVars, taskVars>>]_vars

\* C16: a newly created ModelVersion gets a version label strictly greater
\* than every label given before to a ModelVersion of the same
\* (owner, name) pair.
C16_LabelsIncrease ==
    [][\A s \in Subs :
        (~modelRow[s].exists /\ modelRow'[s].exists)
            => \A t \in Subs \ {s} :
                  (modelId[t] # 0 /\ pairOf[t] = modelRow'[s].pair)
                      => modelRow'[s].version > cnt[t] + 1]_vars

\* C17: the MetricRecords of a Job's model number 1 when the Job is
\* COMPLETED and 0 otherwise.
C17_OneMetricIffCompleted ==
    \A s \in Subs :
        Exists(s) => metricRecs[s] = (IF Status(s) = COMPLETED THEN 1 ELSE 0)

\* C18: every Job row and every MetricRecord references a ModelVersion row
\* that exists.
C18_NoOrphans ==
    \A s \in Subs :
        (Exists(s) \/ metricRecs[s] > 0) => modelRow[s].exists

\* C19: a step of the worker run of job s changes no Job row, ModelVersion,
\* MetricRecord, archive or dataset file of another submission, and no job
\* directory but uploads/eval_jobs/<id of s>.
C19_WorkersDisjoint ==
    [][\A s \in Subs :
        WorkerStep(s)
            => /\ \A t \in Subs \ {s} :
                    /\ jobRow'[t] = jobRow[t]
                    /\ modelRow'[t] = modelRow[t]
                    /\ metricRecs'[t] = metricRecs[t]
                    /\ zipFile'[t] = zipFile[t]
                    /\ csvFile'[t] = csvFile[t]
               /\ \A i \in Ids \ {jobId[s]} : jobDir'[i] = jobDir[i]]_vars

C19_Witness ==
    \E s, t \in Subs :
        /\ s # t
        /\ wpc[s] = "r_finally"
        /\ exc[s] # "none"
        /\ Dir(s) = "none"
        /\ wpc[t] = "r_complete"
        /\ Dir(t) = "full"
        /\ zipFile[t] /\ csvFile[t]
        /\ Exists(t) /\ Status(t) = PROCESSING

\* C20: cleanup_model_files(m) leaves unchanged the directory of every Job
\* whose model is not m.
C20_PurgeOnlyOwnJobs ==
    [][\A m \in Ids :
        cleanup_model_files(m)
            => \A t \in Subs :
                  (Exists(t) /\ jobRow[t].model_id # m)
                      => jobDir'[jobId[t]] = jobDir[jobId[t]]]_vars

C22_UtilitiesNeverRaise ==
    [][/\ op'.pc # "raised"
       /\ (op.pc = "walk" /\ op.names # {} /\ op' # op
             /\ tree.mtime[<<op.d, FirstName(op.names)>>] = NoFile)
            => /\ op'.errors[op.pass] = op.errors[op.pass] + 1
               /\ op'.pc = "walk"
               /\ op'.dirs = op.dirs
               /\ op'.names = op.names \ {FirstName(op.names)}
       /\ (op.pc = "inspect" /\ op' # op /\ ~tree.dir[op.d])
            => /\ op'.errors[1] = op.errors[1] + 1
               /\ op'.pc = "scan"
               /\ op'.dirs = op.dirs
       /\ (op.pc = "rmtree" /\ op' # op /\ ~tree.dir[op.d])
            => /\ op'.errors[1] = 1
               /\ op'.pc = "return"]_vars

C22_Witness ==
    /\ op.kind = "sweep"
    /\ op.pc = "return"
    /\ hist.fails = 0
    /\ op.errors[1] > 0
    /\ op.removed[1] > 0

\* C23: a worker run for a job id without Job row changes no row and no
\* job directory, goes from the lookup straight to the finally block,
\* returns normally, and the task ends in SUCCESS without a retry.
C23_MissingJobNoOp ==
    [][\A s \in Subs :
        (/\ WorkerStep(s)
         /\ ~Exists(s)
         /\ wpc[s] \in {"w_start", "r_load", "r_finally", "w_completed"}
         /\ faults' = faults
         /\ crashes' = crashes)
            => /\ UNCHANGED <<jobRow, modelRow, metricRecs, jobDir>>
               /\ UNCHANGED <<retries, queue>>
               /\ wpc'[s] = CASE wpc[s] = "w_start" -> "r_load"
                              [] wpc[s] = "r_load" -> "r_finally"
                              [] wpc[s] = "r_finally" -> "w_completed"
                              [] OTHER -> "idle"
               /\ wpc[s] = "w_completed" => celeryState'[s] = "SUCCESS"]_vars

C23_Witness ==
    \E s \in Subs :
        /\ jobId[s] # 0
        /\ ~Exists(s)
        /\ wpc[s] = "idle"
        /\ celeryState[s] = "SUCCESS"
        /\ retries[s] = 0
        /\ queue[s] = 0
        /\ Dir(s) = "none"
        /\ faults = 0
        /\ crashes = 0

\* C24: a plot rendering that raises does not reach the failure handler:
\* the run goes on and, every other stage succeeding, commits COMPLETED
\* with the metrics and insights and a null plot_url, which the rest of the
\* run leaves as it is.
C24_PlotFailureStillCompletes ==
    [][\A s \in Subs :
        /\ (wpc[s] = "r_plot" /\ WorkerStep(s) /\ crashes' = crashes)
              => /\ wpc'[s] \in {"r_complete", "r_complete_null"}
                 /\ exc'[s] = exc[s]
        /\ (wpc[s] = "r_complete_null" /\ wpc'[s] = "r_finally")
              => /\ jobRow'[s].status = COMPLETED
                 /\ jobRow'[s].results = "metrics"
                 /\ jobRow'[s].artifacts = "null"
        /\ (/\ wpc[s] \in {"r_finally", "w_completed"}
            /\ WorkerStep(s)
            /\ Exists(s)
            /\ Status(s) = COMPLETED
            /\ jobRow[s].artifacts = "null")
              => jobRow'[s] = jobRow[s]]_vars

C24_Witness ==
    \E s \in Subs :
        /\ wpc[s] = "idle"
        /\ celeryState[s] = "SUCCESS"
        /\ Exists(s)
        /\ Status(s) = COMPLETED
        /\ jobRow[s].results = "metrics"
        /\ jobRow[s].artifacts = "null"
        /\ faults = 0
        /\ crashes = 0

C26_CancelTouchesNothing ==
    [][\A s \in Subs :
        /\ cancel_task(s) => UNCHANGED <<jobRow, modelRow, metricRecs, fileVars>>
        /\ (jobRow'[s].exists /\ jobRow'[s].status \in Terminal
              /\ jobRow'[s].status # jobRow[s].status)
              => /\ WorkerStep(s)
                 /\ wpc[s] \in {"r_complete", "r_complete_null", "r_fail",
                                "r_fail_dirty", "r_fail_dirty_null",
                                "w_completed", "w_failed"}]_vars

C26_Witness ==
    \E s \in Subs :
        /\ celeryState[s] = "REVOKED"
        /\ wpc[s] = "idle"
        /\ Exists(s)
        /\ Status(s) = PROCESSING
        /\ Dir(s) = "full"

\* the rules in their order, and the metrics dictionaries on which each
\* holds: the regression rules on a dictionary with rmse, the
\* classification rules on every other one
RuleOrder ==
    <<MsgLowF1, MsgLowAuc, MsgAucF1, MsgLowAccuracy, MsgLowR2, MsgHighR2,
      MsgHighRmse>>

Present(m, k) == k \in DOMAIN m

RuleHolds(msg, m) ==
    IF Present(m, "rmse")
    THEN CASE msg = MsgLowR2 -> Present(m, "r2_score") /\ m["r2_score"] < 50
           [] msg = MsgHighR2 -> Present(m, "r2_score") /\ m["r2_score"] > 85
           [] msg = MsgHighRmse -> m["rmse"] > 100
           [] OTHER -> FALSE
    ELSE CASE msg = MsgLowF1 -> Present(m, "f1_score") /\ m["f1_score"] < 70
           [] msg = MsgLowAuc -> Present(m, "auc") /\ m["auc"] < 70
           [] msg = MsgAucF1 -> /\ Present(m, "auc") /\ m["auc"] > 90
                                /\ Present(m, "f1_score") /\ m["f1_score"] < 80
           [] msg = MsgLowAccuracy -> Present(m, "accuracy") /\ m["accuracy"] < 60
           [] OTHER -> FALSE

Fired(m) == SelectSeq(RuleOrder, LAMBDA msg : RuleHolds(msg, m))

IsRuleMsg(msg) == msg # MsgDefault

C28_DefaultIffNoRule ==
    (ret.done /\ arg.fn = "generate_insights")
        => /\ Len(ret.value) >= 1
           /\ (\E i \in 1..Len(ret.value) : ret.value[i] = MsgDefault)
                 <=> (Fired(arg.metrics) = <<>>)
           /\ (\E i \in 1..Len(ret.value) : ret.value[i] = MsgDefault)
                 => ret.value = <<MsgDefault>>

C28_Witness ==
    /\ ret.done
    /\ arg.fn = "generate_insights"
    /\ arg.metrics # <<>>
    /\ ret.value = <<MsgDefault>>

C30_NoExceptionEscapes ==
    \A s \in Subs : wpc[s] # "r_finally_raise"

C32_LifecycleSparesRunningJobs ==
    [][\A s \in Subs :
        (wpc[s] # "idle" /\ jobId[s] # 0 /\ ~WorkerStep(s))
            => jobDir'[jobId[s]] = jobDir[jobId[s]]]_vars

\* C33: while a submission is between writing and validating its copy
\* under uploads/temp, no step of another submission writes or removes
\* that file.
C33_TempPathsDisjoint ==
    [][\A s, t \in Subs :
        (s # t /\ spc'[s] # spc[s] /\ spc[t] = "validate")
            => tempCopy'[fname[t]] = tempCopy[fname[t]]]_vars

\* C34: once the task of a job is dispatched, no step of the submission
\* removes the archive or the dataset file of the job.
C34_StagerKeepsDispatchedFiles ==
    [][\A s \in Subs :
        (celeryState[s] # "NONE" /\ spc'[s] # spc[s])
            => /\ zipFile'[s] = zipFile[s]
               /\ csvFile'[s] = csvFile[s]]_vars

\* C35: the step of the submission that writes the task id on the Job row
\* leaves status, results, artifacts and error message of that row as the
\* worker wrote them.
C35_TokenWriteKeepsWorkerValues ==
    [][\A s \in Subs :
        (spc[s] = "token" /\ spc'[s] # spc[s])
            => /\ jobRow'[s].status = jobRow[s].status
               /\ jobRow'[s].results = jobRow[s].results
               /\ jobRow'[s].artifacts = jobRow[s].artifacts
               /\ jobRow'[s].error = jobRow[s].error]_vars

\* the worker run has committed COMPLETED with its results, and ended,
\* while the submission is still before its write of the task id
C35_Witness ==
    \E s \in Subs :
        /\ spc[s] = "token"
        /\ wpc[s] = "idle"
        /\ celeryState[s] = "SUCCESS"
        /\ Exists(s)
        /\ ~jobRow[s].task_id
        /\ Status(s) = COMPLETED
        /\ jobRow[s].results = "metrics"
        /\ jobRow[s].artifacts = "confusion_matrix.png"

\* what is written for job s is all of a classification: scores, plot,
\* insights and the task type of its ModelVersion (a plot that could not be
\* rendered is null, a ModelVersion that was deleted has no task type)
AllClassification(s) ==
    /\ {"accuracy", "f1_score"} \subseteq DOMAIN jobRow[s].metrics
    /\ DOMAIN jobRow[s].metrics \subseteq {"accuracy", "f1_score", "auc"}
    /\ jobRow[s].artifacts \in {"confusion_matrix.png", "null"}
    /\ jobRow[s].insights # <<>>
    /\ \A i \in 1..Len(jobRow[s].insights) :
          jobRow[s].insights[i] \in {MsgLowF1, MsgLowAuc, MsgAucF1,
                                     MsgLowAccuracy, MsgDefault}
    /\ modelRow[s].exists => modelRow[s].task_type = "classification"

\* what is written for job s is all of a regression
AllRegression(s) ==
    /\ DOMAIN jobRow[s].metrics = {"rmse", "r2_score"}
    /\ jobRow[s].artifacts \in {"regression_plot.png", "null"}
    /\ jobRow[s].insights # <<>>
    /\ \A i \in 1..Len(jobRow[s].insights) :
          jobRow[s].insights[i] \in {MsgLowR2, MsgHighR2, MsgHighRmse, MsgDefault}
    /\ modelRow[s].exists => modelRow[s].task_type = "regression"

\* C36: for every COMPLETED job the scores, the plot, the insights and the
\* task type of the ModelVersion are all those of a classification or all
\* those of a regression.
C36_OneDecision ==
    \A s \in Subs :
        (Exists(s) /\ Status(s) = COMPLETED)
            => (AllClassification(s) \/ AllRegression(s))

Severity(level) ==
    CASE level = "normal" -> 0
      [] level = "warning" -> 1
      [] level = "high_warning" -> 2
      [] level = "critical" -> 3
      [] OTHER -> 4

\* C38: for every amount of free space get_storage_usage and
\* StorageMonitor.check_storage_status report the same alert level, and
\* less free space never gives a less severe level.
C38_SameLevelMonotone ==
    (ret.done /\ arg.fn \in {"get_storage_usage", "check_storage_status"}
        /\ arg.free_mb # DiskError)
        => /\ ret.value = get_storage_usage(arg.free_mb)
           /\ ret.value = check_storage_status(arg.free_mb)
           /\ \A m \in LevelSamples \ {DiskError} :
                 m < arg.free_mb
                     => /\ Severity(get_storage_usage(m)) >= Severity(ret.value)
                        /\ Severity(check_storage_status(m)) >= Severity(ret.value)

\* C39: in emergency_cleanup the second pass (3 days) runs only when the
\* level read after the first pass (1 day) is critical; every file the
\* second pass removes was, with the same modification time, older than
\* the cutoff of the first pass; and when the first pass recorded no
\* error the second pass removes nothing.
C39_SecondPassOnlyLeftovers ==
    [][(op'.kind = "emergency" /\ op'.pass = 2)
          => /\ op'.alert = "critical"
             /\ op'.cutoff <= op'.at - EmergencyDays
             /\ \A f \in Ids \X Names :
                   (op.pass = 2 /\ op'.removed[2] # op.removed[2]
                       /\ tree.mtime[f] # NoFile /\ tree'.mtime[f] = NoFile)
                       => tree.mtime[f] < op.at - EmergencyDays
             /\ op'.errors[1] = 0 => op'.removed[2] = 0]_vars

C39_Witness ==
    /\ op.kind = "emergency"
    /\ op.pc = "return"
    /\ op.pass = 2
    /\ op.alert = "critical"
    /\ op.removed[1] > 0
    /\ op.errors[1] = 0
    /\ op.removed[2] = 0
    /\ now > op.at
    /\ \E f \in Ids \X Names : tree.mtime[f] # NoFile /\ tree.mtime[f] < now

====
